---- MODULE Spec2Model ----
(***************************************************************************)
(* Model of the agent-4-plc frontend generator components                  *)
(* (PlcGeneratorV2, HmiGeneratorV2, the legacy PlcGenerator and Hmi) and   *)
(* of the generation / validation service they call.                       *)
(*                                                                         *)
(* A behaviour follows ONE unit, chosen in Init (comp): a mounted          *)
(* generator component, the validation service, the ThemeProvider, or an   *)
(* account component (Profile, LoginModal, RegisterModal); the             *)
(* state of that unit is held by the variables.  An async                  *)
(* handler is split at its await: the part before the fetch is one action, *)
(* the environment settling the fetch is a second one, and the             *)
(* continuation (which runs with the values captured by the closure of the *)
(* render in which the handler was invoked) is a third.                    *)
(***************************************************************************)
EXTENDS Integers, Sequences, FiniteSets, TLC

(* ------------------------------ bounds --------------------------------- *)
\* number of generation requests sent in one behaviour
MaxRuns == 2
\* number of theme toggles between two page loads
MaxToggles == 2
(* --------------------------- program constants ------------------------- *)
Components == {"PlcGeneratorV2", "HmiGeneratorV2", "PlcGenerator", "Hmi"}

\* components that own a handleGenerate
Generators == {"PlcGeneratorV2", "HmiGeneratorV2", "PlcGenerator"}

\* components that keep a history and a preview panel
V2 == {"PlcGeneratorV2", "HmiGeneratorV2"}

languages == <<"ST", "LD", "FBD", "SFC", "IL">>

brands == <<"generic", "siemens", "mitsubishi", "ab", "schneider">>

Range(s) == {s[i] : i \in DOMAIN s}

\* account requests (login, register, profile, logout) sent per behaviour
MaxCalls == 2

(* ------------------------------ strings -------------------------------- *)
\* A text is a sequence of characters; " " stands for any white space.
Chars == {" ", "a"}

\* requirement texts the user types: empty, white space only, and a text
\* with surrounding white space
UserRequirements == { <<>>, <<" ">>, <<" ", "a">> }

\* languages the user clicks (one per file extension class)
UserLanguages == {"ST", "LD"}

RECURSIVE TrimStart(_)
TrimStart(s) == IF s # <<>> /\ Head(s) = " " THEN TrimStart(Tail(s)) ELSE s

RECURSIVE TrimEnd(_)
TrimEnd(s) ==
  IF s # <<>> /\ s[Len(s)] = " " THEN TrimEnd(SubSeq(s, 1, Len(s) - 1)) ELSE s

\* String.prototype.trim
Trim(s) == TrimEnd(TrimStart(s))

\* variant: the requirement is tested without trim()
IsBlankNoTrim(s) == s = <<>>

\* !requirement.trim()
IsBlank(s) == Trim(s) = <<>>

\* String.prototype.startsWith for a one-token marker
StartsWith(s, m) == Len(s) >= 1 /\ s[1] = m

(* --------------------- absent values (null / none) --------------------- *)
Null == [kind |-> "null"]

NoToken == ""

(* ------------------------------ state ---------------------------------- *)
VARIABLES
  comp,           \* the mounted component this behaviour follows
  token,          \* localStorage "token"
  showModal, requirement, language, plcBrand, loading,
  generatedCode,  \* generatedCode (PlcGeneratorV2) / generatedHmi (HmiGeneratorV2)
  generated,      \* legacy PlcGenerator: success flag
  editedCode, isEditing, showPreview,
  history,        \* codeHistory (PlcGeneratorV2) / hmiHistory (HmiGeneratorV2)
  call,           \* the handleGenerate invocation suspended at an await, or Null
  effects,        \* what the latest handler did to the outside: alerts, requests
  stages,         \* pipeline stages the latest run went through
  nSent, nSuccess, cleared,  \* run counters; whether the history was ever cleared
  lastReport, prevReport,        \* DialectValidator: the latest two validations
  theme,                     \* ThemeProvider: theme state hook
  storedTheme,               \* localStorage "theme"
  themeLog,                  \* stored value at mount, then the themes since
  hooks,          \* state hooks of the mounted account component, or Null
  storedUser, storedUserId,  \* localStorage "user", "userId"
  isLoggedIn,     \* Home: isLoggedIn
  requests,       \* account requests in flight, each with its closure
  timers,         \* callbacks scheduled with setTimeout, oldest first
  lastResponse,   \* the response the latest step's continuation handled
  nAccountSent, nLoginOk, nCallbacks  \* account requests sent, logins that
                  \* reached the success path, onLoginSuccess calls

(* ----------- generation / validation service (backend) ----------------- *)
\* The backend sources are not part of the inspected tree; this section is
\* the reference design of spec.md sections 4.2, 4.4 and 6.

\* wire-format severity markers (the cross, warning-sign and bulb glyphs)
ErrorMarker == "ERR"

WarningMarker == "WARN"

TipMarker == "TIP"

OpenMarker(d) ==
  CASE d = "ST" -> "PROGRAM"
    [] d = "LD" -> "RUNG"
    [] d = "FBD" -> "FUNCTION_BLOCK"
    [] d = "SFC" -> "INITIAL_STEP"
    [] OTHER -> "LD_INSTR"

CloseMarker(d) ==
  CASE d = "ST" -> "END_PROGRAM"
    [] d = "LD" -> "END_RUNG"
    [] d = "FBD" -> "END_FUNCTION_BLOCK"
    [] d = "SFC" -> "END_STEP"
    [] OTHER -> "RET"

\* ordered rule table of a dialect: each rule demands one token
RuleTable(d) ==
  << [rule_id |-> 1, severity |-> "warning", needs |-> "(*"],
     [rule_id |-> 2, severity |-> "error", needs |-> OpenMarker(d)],
     [rule_id |-> 3, severity |-> "error", needs |-> CloseMarker(d)],
     [rule_id |-> 4, severity |-> "tip", needs |-> "//"] >>

\* candidate texts the text-generation service may return for a dialect:
\* one with both structural markers (rules 1 and 4 still report a warning
\* and a tip), one without the closing marker (rule 3 reports an error too)
Texts(d) ==
  { <<OpenMarker(d), CloseMarker(d)>>,
    <<OpenMarker(d)>> }

HmiTexts == { <<"<html>">> }

RECURSIVE SelectSeq2(_, _, _)
\* sub-sequence of the findings of one severity, order preserved
SelectSeq2(fs, sev, i) ==
  IF i > Len(fs) THEN <<>>
  ELSE (IF fs[i].severity = sev THEN <<fs[i]>> ELSE <<>>) \o SelectSeq2(fs, sev, i + 1)

RECURSIVE EvalRules(_, _, _)
EvalRules(code, table, i) ==
  IF i > Len(table) THEN <<>>
  ELSE (IF table[i].needs \in Range(code) THEN <<>>
        ELSE << [rule_id |-> table[i].rule_id, severity |-> table[i].severity] >>)
       \o EvalRules(code, table, i + 1)

\* variant: a rule is skipped once an earlier report is cached
ValidateDrifting(code, d, vendor) ==
  EvalRules(code,
            IF lastReport = Null THEN RuleTable(d)
            ELSE SubSeq(RuleTable(d), 2, Len(RuleTable(d))),
            1)

\* DialectValidator.validate: rules in ascending rule-id order
Validate(code, d, vendor) == EvalRules(code, RuleTable(d), 1)

\* ReportBuilder.build: errors ++ warnings ++ tips, validated = no error
Build(findings) ==
  LET errors == SelectSeq2(findings, "error", 1)
      warns == SelectSeq2(findings, "warning", 1)
      tips == SelectSeq2(findings, "tip", 1)
  IN [findings |-> errors \o warns \o tips,
      validated |-> (errors = <<>>),
      explanation |-> <<Len(errors), Len(warns), Len(tips)>>]

\* severity -> prefixed wire string
ToWire(f) ==
  << (CASE f.severity = "error" -> ErrorMarker
        [] f.severity = "warning" -> WarningMarker
        [] OTHER -> TipMarker),
     f.rule_id >>

\* body of a successful /plc-v2/generate response
PlcResponseBody(code, d, vendor) ==
  LET report == Build(Validate(code, d, vendor))
  IN [kind |-> "plc", code |-> code, language |-> d,
      validated |-> report.validated,
      warnings |-> [i \in DOMAIN report.findings |-> ToWire(report.findings[i])],
      explanation |-> report.explanation]

\* body of a successful /plc/generate-hmi response
HmiResponseBody(html) == [kind |-> "hmi", hmi_code |-> html]

(* ------------------------ client: state tuples ------------------------- *)
vars == <<comp, token, showModal, requirement, language, plcBrand, loading,
          generatedCode, generated, editedCode, isEditing, showPreview,
          history, call, effects, stages, nSent, nSuccess, cleared,
          lastReport, prevReport, theme, storedTheme, themeLog,
          hooks, storedUser, storedUserId, isLoggedIn, requests, timers,
          lastResponse, nAccountSent, nLoginOk, nCallbacks>>

\* state of the account components and of their host page
accountVars == <<hooks, storedUser, storedUserId, isLoggedIn, requests, timers,
                 lastResponse, nAccountSent, nLoginOk, nCallbacks>>

\* state of the units that are not generator components
unitVars == <<lastReport, prevReport, theme, storedTheme, themeLog, accountVars>>

\* localStorage.getItem('theme') of a browser that never stored one
NoTheme == "none"

\* value of theme while ThemeProvider is not mounted
Unmounted == "unmounted"

\* the theme preference a browser holds when the page loads: nothing, or
\* what ThemeProvider stored on an earlier visit
StoredThemes == {NoTheme, "light", "dark"}

\* the account components: Profile, the login dialog (LoginModal0 is its
\* earlier version) and the registration dialog
AccountUnits == {"Profile", "LoginModal", "LoginModal0", "RegisterModal"}

\* the dialogs the Home page mounts on demand
Dialogs == {"LoginModal", "LoginModal0", "RegisterModal"}

\* localStorage.getItem of a key that was never set
NoUser == "no user"

\* user and userId left in storage by an earlier session
OldUser == "old@x"

\* useState initial values of Profile; tok is localStorage.getItem("token")
ProfileHooks(tok) ==
  [showModal |-> FALSE, token |-> tok, profile |-> [kind |-> "blank"]]

\* useState initial values of the dialog c
DialogHooks(c) ==
  CASE c = "LoginModal" ->
         [email |-> "", pass |-> <<>>, loading |-> FALSE, error |-> "",
          success |-> ""]
    [] c = "LoginModal0" -> [email |-> "", pass |-> <<>>]
    [] OTHER ->
         [email |-> "", pass |-> <<>>, confirmPass |-> <<>>, loading |-> FALSE,
          error |-> "", success |-> ""]

\* every unit a behaviour may follow: a mounted component, the validation
\* service, the theme provider
Units == Components \cup {"DialectValidator", "ThemeProvider"} \cup AccountUnits

uiVars == <<showModal, requirement, language, plcBrand, loading, generatedCode,
            generated, editedCode, isEditing, showPreview, history>>

ghostVars == <<stages, nSent, nSuccess, cleared>>

Init ==
  /\ comp \in Units
  /\ token \in (IF comp \in Components \cup AccountUnits
                  THEN {NoToken, "jwt"} ELSE {NoToken})
  /\ showModal = FALSE
  /\ requirement = <<>>
  /\ language = "ST"
  /\ plcBrand = "generic"
  /\ loading = FALSE
  /\ generatedCode = Null
  /\ generated = FALSE
  /\ editedCode = <<>>
  /\ isEditing = FALSE
  /\ showPreview = FALSE
  /\ history = <<>>
  /\ call = Null
  /\ effects = <<>>
  /\ stages = <<>>
  /\ nSent = 0
  /\ nSuccess = 0
  /\ cleared = FALSE
  /\ lastReport = Null
  /\ prevReport = Null
  /\ theme = Unmounted
  /\ storedTheme \in (IF comp = "ThemeProvider" THEN StoredThemes ELSE {NoTheme})
  /\ themeLog = <<>>
  /\ hooks = (IF comp = "Profile" THEN ProfileHooks(token) ELSE Null)
  /\ storedUser = (IF comp \in AccountUnits /\ token # NoToken
                     THEN OldUser ELSE NoUser)
  /\ storedUserId = storedUser
  /\ isLoggedIn = FALSE
  /\ requests = <<>>
  /\ timers = <<>>
  /\ lastResponse = Null
  /\ nAccountSent = 0
  /\ nLoginOk = 0
  /\ nCallbacks = 0

Alert(msg) == [type |-> "alert", msg |-> msg]

Fetch(url, body) == [type |-> "fetch", url |-> url, body |-> body]

\* values Date.now() may return; the wall clock is an input of the handler
\* that reads it (it is not monotonic and has millisecond resolution).  The
\* program only compares ids for equality (React keys), so two readings
\* stand for "the same millisecond" and "another one"
Clock == {0, 1}

\* Date.prototype.toLocaleTimeString of the clock value
LocaleTimeString(t) == <<"time", t>>

\* a settled fetch resumes handleGenerate as a microtask: the continuation
\* runs before any further event is dispatched
Resuming == call # Null /\ call.settled

(* ------------------------ client: the dialog ---------------------------- *)
\* handleTryNow (all four components)
handleTryNow ==
  /\ ~Resuming
  /\ comp \in Components
  /\ IF token = NoToken
       THEN /\ effects' = <<Alert("Please login first!")>>
            /\ UNCHANGED showModal
       ELSE /\ showModal' = TRUE
            /\ effects' = <<>>
  /\ UNCHANGED <<comp, unitVars, token, requirement, language, plcBrand, loading,
                 generatedCode, generated, editedCode, isEditing, showPreview,
                 history, call, ghostVars>>

\* Profile.handleLogout (the Profile icon sits in the navigation bar of the
\* same page): localStorage.removeItem("token"); the generator components
\* keep their state
handleLogout ==
  /\ ~Resuming
  /\ comp \in Components
  /\ token # NoToken
  /\ token' = NoToken
  /\ effects' = <<>>
  /\ UNCHANGED <<comp, unitVars, uiVars, call, ghostVars>>

\* overlay click / close button (V2), Cancel (legacy PlcGenerator), Close (Hmi):
\* setShowModal(false), enabled also while loading
CloseModal ==
  /\ ~Resuming
  /\ showModal
  /\ comp = "PlcGenerator" => ~generated
  /\ showModal' = FALSE
  /\ effects' = <<>>
  /\ UNCHANGED <<comp, unitVars, token, requirement, language, plcBrand, loading,
                 generatedCode, generated, editedCode, isEditing, showPreview,
                 history, call, ghostVars>>

\* Cancel button of the V2 dialogs, disabled={loading}
CancelModal ==
  /\ ~Resuming
  /\ comp \in V2
  /\ showModal /\ ~loading
  /\ showModal' = FALSE
  /\ requirement' = <<>>
  /\ effects' = <<>>
  /\ UNCHANGED <<comp, unitVars, token, language, plcBrand, loading,
                 generatedCode, generated, editedCode, isEditing, showPreview,
                 history, call, ghostVars>>

\* Close button of the legacy success panel
CloseSuccess ==
  /\ ~Resuming
  /\ comp = "PlcGenerator"
  /\ showModal /\ generated
  /\ showModal' = FALSE
  /\ generated' = FALSE
  /\ requirement' = <<>>
  /\ effects' = <<>>
  /\ UNCHANGED <<comp, unitVars, token, language, plcBrand, loading,
                 generatedCode, editedCode, isEditing, showPreview,
                 history, call, ghostVars>>

\* textarea onChange: setRequirement(e.target.value)
SetRequirement(r) ==
  /\ ~Resuming
  /\ comp \in Generators
  /\ showModal
  /\ comp = "PlcGenerator" => ~generated
  /\ requirement' = r
  /\ effects' = <<>>
  /\ UNCHANGED <<comp, unitVars, token, showModal, language, plcBrand, loading,
                 generatedCode, generated, editedCode, isEditing, showPreview,
                 history, call, ghostVars>>

\* language buttons: setLanguage(lang.value)
SetLanguage(l) ==
  /\ ~Resuming
  /\ comp = "PlcGeneratorV2"
  /\ showModal
  /\ language' = l
  /\ effects' = <<>>
  /\ UNCHANGED <<comp, unitVars, token, showModal, requirement, plcBrand, loading,
                 generatedCode, generated, editedCode, isEditing, showPreview,
                 history, call, ghostVars>>

(* ------------------------ client: handleGenerate ------------------------ *)
\* variant: the Generate button is not disabled while loading
GenerateEnabledWhileLoading ==
  /\ comp \in Generators
  /\ showModal
  /\ comp \in V2 => ~IsBlank(requirement)
  /\ comp = "PlcGenerator" => ~generated

\* the Generate button is rendered and not disabled
GenerateEnabled ==
  /\ comp \in Generators
  /\ showModal
  /\ ~loading
  /\ comp \in V2 => ~IsBlank(requirement)
  /\ comp = "PlcGenerator" => ~generated

\* variant: the request body carries the requirement as typed
RequestRaw ==
  CASE comp = "PlcGeneratorV2" ->
         Fetch("/plc-v2/generate",
               [requirement |-> requirement, language |-> language,
                plc_brand |-> plcBrand])
    [] comp = "HmiGeneratorV2" ->
         Fetch("/plc/generate-hmi", [requirement |-> requirement])
    [] OTHER -> Fetch("/plc/generate", [requirement |-> requirement])

\* url and JSON body of the request each component sends
Request ==
  CASE comp = "PlcGeneratorV2" ->
         Fetch("/plc-v2/generate",
               [requirement |-> Trim(requirement), language |-> language,
                plc_brand |-> plcBrand])
    [] comp = "HmiGeneratorV2" ->
         Fetch("/plc/generate-hmi", [requirement |-> Trim(requirement)])
    [] OTHER -> Fetch("/plc/generate", [requirement |-> requirement])

\* handleGenerate, first line: empty requirement -> alert and return
GenerateRejected ==
  /\ ~Resuming
  /\ GenerateEnabled
  /\ IsBlank(requirement)
  /\ effects' = <<Alert("Please enter a requirement!")>>
  /\ stages' = <<"PENDING", "NORMALIZING", "FAILED">>
  /\ UNCHANGED <<comp, unitVars, token, uiVars, call, nSent, nSuccess, cleared>>

\* handleGenerate up to the await of fetch: setLoading(true), request sent;
\* the closure keeps the requirement, language and history of this render
GenerateSend ==
  /\ ~Resuming
  /\ GenerateEnabled
  /\ ~IsBlank(requirement)
  /\ nSent < MaxRuns
  /\ loading' = TRUE
  /\ call' = [requirement |-> requirement, language |-> language,
              history |-> history, request |-> Request,
              clearedInFlight |-> FALSE, settled |-> FALSE]
  /\ effects' = <<Request>>
  /\ stages' = <<"PENDING", "NORMALIZING", "GENERATING">>
  /\ nSent' = nSent + 1
  /\ UNCHANGED <<comp, unitVars, token, showModal, requirement, language, plcBrand,
                 generatedCode, generated, editedCode, isEditing, showPreview,
                 history, nSuccess, cleared>>

(* ------------------------ the network and the service ------------------- *)
Unparsable == [kind |-> "unparsable"]

\* JSON.parse("null")
JsonNull == Null

ErrorBody == [kind |-> "error", detail |-> "detail"]

\* bodies of a 200 answer to a request
OkBodies(req) ==
  {Unparsable, JsonNull} \cup
  (CASE req.url = "/plc-v2/generate" ->
          {PlcResponseBody(t, req.body.language, req.body.plc_brand) :
             t \in Texts(req.body.language)}
     [] req.url = "/plc/generate-hmi" -> {HmiResponseBody(t) : t \in HmiTexts}
     [] OTHER -> {[kind |-> "legacy"]})

\* every way the fetch can settle
Responses(req) ==
  {[kind |-> "network"]}
    \cup {[kind |-> "http", ok |-> FALSE, body |-> b] : b \in {Unparsable, ErrorBody}}
    \cup {[kind |-> "http", ok |-> TRUE, body |-> b] : b \in OkBodies(req)}

\* the external call settles (it is not obliged to); what it settled with
\* is read by the continuation
FetchSettles ==
  /\ call # Null
  /\ ~call.settled
  /\ call' = [call EXCEPT !.settled = TRUE]
  /\ effects' = <<>>
  /\ UNCHANGED <<comp, unitVars, token, uiVars, ghostVars>>

(* ------------------- client: handleGenerate after the await ------------- *)
\* response.ok held and response.json() resolved: data is available
ReachesSuccessPath(r) == r.kind = "http" /\ r.ok /\ r.body # Unparsable

\* variant: a result that failed validation is thrown like an error
SuccessPathThrowsInvalid(c, data) ==
  c \in V2 /\ (data = Null \/ (data.kind = "plc" /\ ~data.validated))

\* the statements after `const data = ...` throw: data.code / data.hmi_code
\* of null
SuccessPathThrows(c, data) == c \in V2 /\ data = JsonNull

\* the run ends in the catch block
Throws(c, r) == IF ReachesSuccessPath(r) THEN SuccessPathThrows(c, r.body) ELSE TRUE

\* err.message reaching the catch block
ErrorMsg(c, r) ==
  CASE r.kind = "network" -> "Failed to fetch"
    [] r.kind = "http" /\ ~r.ok /\ r.body = ErrorBody ->
         IF c = "PlcGenerator" THEN "Error generating code" ELSE r.body.detail
    [] r.kind = "http" /\ ~r.ok ->
         IF c = "PlcGeneratorV2" THEN "HTTP status"
         ELSE IF c = "PlcGenerator" THEN "Error generating code"
         ELSE "Unexpected token"
    [] r.kind = "http" /\ r.body = Unparsable -> "Unexpected token"
    [] OTHER -> "Cannot read properties of null"

\* text of the alert in the catch block
FailureAlert(c, r) ==
  IF c = "PlcGenerator" THEN Alert("Failed to generate ST code. Please try again.")
  ELSE Alert(<<"Failed to generate", ErrorMsg(c, r)>>)

\* variant: the entry keeps the editor text instead of the generated code
HistoryEntryStale(c, data, t) ==
  IF c = "PlcGeneratorV2"
    THEN [id |-> t, requirement |-> call.requirement, language |-> call.language,
          code |-> editedCode, timestamp |-> LocaleTimeString(t)]
    ELSE [id |-> t, requirement |-> call.requirement,
          hmi_code |-> <<>>, timestamp |-> LocaleTimeString(t)]

\* the history entry the success path appends; t is what Date.now() returns
HistoryEntry(c, data, t) ==
  IF c = "PlcGeneratorV2"
    THEN [id |-> t, requirement |-> call.requirement, language |-> call.language,
          code |-> data.code, timestamp |-> LocaleTimeString(t)]
    ELSE [id |-> t, requirement |-> call.requirement,
          hmi_code |-> data.hmi_code, timestamp |-> LocaleTimeString(t)]

\* variant: the spread of the old history is forgotten
AppendHistoryLost(h, e) == <<e>>

\* variant: the new entry is put in front
AppendHistoryFront(h, e) == <<e>> \o h

\* setCodeHistory([...codeHistory, entry]) with the closure's codeHistory
AppendHistory(h, e) == Append(h, e)

\* success path and finally, for the response r and the clock reading t
Succeed(r, t) ==
  /\ ~Throws(comp, r)
  /\ LET data == r.body IN
       CASE comp = "PlcGeneratorV2" ->
              /\ generatedCode' = data
              /\ editedCode' = data.code
              /\ isEditing' = FALSE
              /\ showPreview' = TRUE
              /\ showModal' = FALSE
              /\ history' = AppendHistory(call.history, HistoryEntry(comp, data, t))
              /\ UNCHANGED generated
         [] comp = "HmiGeneratorV2" ->
              /\ generatedCode' = data
              /\ showPreview' = TRUE
              /\ history' = AppendHistory(call.history, HistoryEntry(comp, data, t))
              /\ UNCHANGED <<editedCode, isEditing, showModal, generated>>
         [] OTHER ->
              /\ generated' = TRUE
              /\ UNCHANGED <<generatedCode, editedCode, isEditing, showPreview,
                             showModal, history>>
  /\ loading' = FALSE
  /\ call' = Null
  /\ effects' = <<>>
  /\ stages' = stages \o <<"VALIDATING", "COMPLETE">>
  /\ nSuccess' = nSuccess + 1
  /\ UNCHANGED <<comp, unitVars, token, requirement, language, plcBrand, nSent, cleared>>

\* variant: the catch block sends the request again instead of giving up
FailRetry(r) ==
  /\ Throws(comp, r)
  /\ call' = [call EXCEPT !.settled = FALSE]
  /\ effects' = <<call.request>>
  /\ UNCHANGED <<comp, unitVars, token, uiVars, ghostVars>>

\* variant: setLoading(false) sits at the end of the try block instead of in
\* finally, so the catch path leaves loading set
FailKeepsLoading(r) ==
  /\ Throws(comp, r)
  /\ IF ReachesSuccessPath(r)
       THEN /\ generatedCode' = r.body
            /\ IF comp = "HmiGeneratorV2"
                 THEN showPreview' = TRUE
                 ELSE UNCHANGED showPreview
       ELSE UNCHANGED <<generatedCode, showPreview>>
  /\ call' = Null
  /\ effects' = <<FailureAlert(comp, r)>>
  /\ stages' = stages \o
       (IF ReachesSuccessPath(r) /\ r.body # JsonNull
          THEN <<"VALIDATING", "FAILED">> ELSE <<"FAILED">>)
  /\ UNCHANGED <<comp, unitVars, token, showModal, requirement, language, plcBrand,
                 loading, generated, editedCode, isEditing, history,
                 nSent, nSuccess, cleared>>

\* catch block and finally for the response r; the setters called before
\* the throw still apply
Fail(r) ==
  /\ Throws(comp, r)
  /\ IF ReachesSuccessPath(r)
       THEN /\ generatedCode' = r.body
            /\ IF comp = "HmiGeneratorV2"
                 THEN showPreview' = TRUE
                 ELSE UNCHANGED showPreview
       ELSE UNCHANGED <<generatedCode, showPreview>>
  /\ loading' = FALSE
  /\ call' = Null
  /\ effects' = <<FailureAlert(comp, r)>>
  /\ stages' = stages \o
       (IF ReachesSuccessPath(r) /\ r.body # JsonNull
          THEN <<"VALIDATING", "FAILED">> ELSE <<"FAILED">>)
  /\ UNCHANGED <<comp, unitVars, token, showModal, requirement, language, plcBrand,
                 generated, editedCode, isEditing, history,
                 nSent, nSuccess, cleared>>

\* handleGenerate resumes and runs to its end without throwing
GenerateSucceeded ==
  /\ Resuming
  /\ \E r \in Responses(call.request) : \E t \in Clock : Succeed(r, t)

\* handleGenerate resumes and ends in its catch block
GenerateFailed ==
  /\ Resuming
  /\ \E r \in Responses(call.request) : Fail(r)

(* ------------------------ client: history and preview ------------------- *)
\* handleClearHistory ("Clear All", rendered while the history is not empty)
handleClearHistory ==
  /\ ~Resuming
  /\ comp \in V2
  /\ Len(history) > 0
  /\ history' = <<>>
  /\ generatedCode' = Null
  /\ showPreview' = FALSE
  /\ requirement' = <<>>
  /\ cleared' = TRUE
  /\ call' = IF call = Null THEN call ELSE [call EXCEPT !.clearedInFlight = TRUE]
  /\ effects' = <<>>
  /\ UNCHANGED <<comp, unitVars, token, showModal, language, plcBrand, loading, generated,
                 editedCode, isEditing, stages, nSent, nSuccess>>

\* the preview panel is rendered
PreviewShown == comp \in V2 /\ showPreview /\ generatedCode # Null

\* "Edit Code" / "Done Editing": setIsEditing(!isEditing)
ToggleEdit ==
  /\ ~Resuming
  /\ comp = "PlcGeneratorV2"
  /\ PreviewShown
  /\ isEditing' = ~isEditing
  /\ effects' = <<>>
  /\ UNCHANGED <<comp, unitVars, token, showModal, requirement, language, plcBrand, loading,
                 generatedCode, generated, editedCode, showPreview, history,
                 call, ghostVars>>

\* texts the user leaves in the code editor
UserEdits == { <<"edited">> }

\* code editor onChange: setEditedCode(e.target.value)
EditCode(t) ==
  /\ ~Resuming
  /\ comp = "PlcGeneratorV2"
  /\ PreviewShown
  /\ isEditing
  /\ editedCode' = t
  /\ effects' = <<>>
  /\ UNCHANGED <<comp, unitVars, token, showModal, requirement, language, plcBrand, loading,
                 generatedCode, generated, isEditing, showPreview, history,
                 call, ghostVars>>

\* "Modify & Regenerate" / "Regenerate": setShowPreview(false)
HidePreview ==
  /\ ~Resuming
  /\ PreviewShown
  /\ showPreview' = FALSE
  /\ effects' = <<>>
  /\ UNCHANGED <<comp, unitVars, token, showModal, requirement, language, plcBrand, loading,
                 generatedCode, generated, editedCode, isEditing, history,
                 call, ghostVars>>

\* extension chosen by handleDownload
Extension(l) == IF l = "ST" THEN "st" ELSE IF l = "IL" THEN "il" ELSE "txt"

\* the file handleDownload hands to the browser (the time stamp inside the
\* file name is left out)
DownloadFile ==
  IF comp = "PlcGeneratorV2"
    THEN [type |-> "download",
          filename |-> <<"plc_code", language, Extension(language)>>,
          content |-> IF isEditing THEN editedCode ELSE generatedCode.code,
          mime |-> "text/plain"]
    ELSE [type |-> "download",
          filename |-> <<"hmi_interface", "html">>,
          content |-> generatedCode.hmi_code,
          mime |-> "text/html"]

\* handleDownload (the button is part of the preview panel)
handleDownload ==
  /\ ~Resuming
  /\ PreviewShown
  /\ effects' = <<DownloadFile>>
  /\ UNCHANGED <<comp, unitVars, token, uiVars, call, ghostVars>>

(* ------------------------ client: validation report ------------------------ *)
\* variant: the warning marker is taken for the error marker
ItemClassSwapped(w) ==
  IF StartsWith(w, WarningMarker) THEN "error"
  ELSE IF StartsWith(w, ErrorMarker) THEN "warning"
  ELSE "tip"

\* variant: the warning marker is not tested
ItemClassNoWarning(w) ==
  IF StartsWith(w, ErrorMarker) THEN "error" ELSE "tip"

\* class of a validation item: isError / isWarning / isTip
ItemClass(w) ==
  IF StartsWith(w, ErrorMarker) THEN "error"
  ELSE IF StartsWith(w, WarningMarker) THEN "warning"
  ELSE "tip"

\* variant: the two branches of the badge are exchanged
BadgeInverted(g) ==
  IF g.validated THEN "Review Issues Below" ELSE "All Validations Passed"

\* the badge next to the language tag
Badge(g) == IF g.validated THEN "All Validations Passed" ELSE "Review Issues Below"

\* variant: the list is rendered last item first
ValidationListReversed(g) ==
  [i \in DOMAIN g.warnings |-> ItemClass(g.warnings[Len(g.warnings) + 1 - i])]

\* classes of the rendered validation list, in display order
ValidationList(g) == [i \in DOMAIN g.warnings |-> ItemClass(g.warnings[i])]

(* ------------------------ the validation service ------------------------ *)
\* code texts handed to the validator for a dialect: fully conformant,
\* markers only, one marker missing, both missing
ValidatorTexts(d) ==
  { <<OpenMarker(d), "(*", "//", CloseMarker(d)>>,
    <<OpenMarker(d), CloseMarker(d)>>,
    <<OpenMarker(d)>>,
    <<CloseMarker(d)>>,
    <<>> }

\* vendors the service is asked for: the default and one vendor overlay
ValidatorVendors == {"generic", "siemens"}

\* the service validates a text and builds its report; the two latest
\* reports are kept
ValidateText(code, d, vendor) ==
  /\ comp = "DialectValidator"
  /\ prevReport' = lastReport
  /\ lastReport' = [vendor |-> vendor, body |-> PlcResponseBody(code, d, vendor)]
  /\ UNCHANGED <<comp, token, uiVars, call, effects, ghostVars,
                 theme, storedTheme, themeLog, accountVars>>

(* ------------------------ ThemeProvider --------------------------------- *)
\* useState(localStorage.getItem('theme') || 'dark')
InitialTheme(stored) == IF stored = NoTheme THEN "dark" ELSE stored

\* variant: the toggle always selects the dark theme
ToggleToDark(prev) == "dark"

\* setTheme's updater: prev === 'dark' ? 'light' : 'dark'
ToggleOf(prev) == IF prev = "dark" THEN "light" ELSE "dark"

\* the provider mounts: the state hook is initialised and the effect stores
\* the theme
MountThemeProvider ==
  /\ comp = "ThemeProvider"
  /\ theme = Unmounted
  /\ theme' = InitialTheme(storedTheme)
  /\ storedTheme' = theme'
  /\ themeLog' = <<storedTheme, theme'>>
  /\ UNCHANGED <<comp, token, uiVars, call, effects, ghostVars, lastReport, prevReport,
                 accountVars>>

\* toggleTheme, followed by the effect on [theme]
toggleTheme ==
  /\ comp = "ThemeProvider"
  /\ theme # Unmounted
  /\ Len(themeLog) < MaxToggles + 2
  /\ theme' = ToggleOf(theme)
  /\ storedTheme' = theme'
  /\ themeLog' = Append(themeLog, theme')
  /\ UNCHANGED <<comp, token, uiVars, call, effects, ghostVars, lastReport, prevReport,
                 accountVars>>

\* the page is left or reloaded (window.location.href = "/"): the provider
\* unmounts, localStorage stays
ReloadPage ==
  /\ comp = "ThemeProvider"
  /\ theme # Unmounted
  /\ theme' = Unmounted
  /\ themeLog' = <<>>
  /\ UNCHANGED <<comp, token, uiVars, call, effects, ghostVars, lastReport, prevReport,
                 storedTheme, accountVars>>

(* ------------------------ account components ---------------------------- *)
\* the frame of every account step: generator, validator and theme state
otherVars == <<comp, uiVars, call, ghostVars, lastReport, prevReport, theme,
               storedTheme, themeLog>>

\* a fetch to the account service (/auth/..., /profile/...)
AuthFetch(url, body) == [type |-> "account", url |-> url, body |-> body]

\* a call of a callback prop (onLogout, onLoginSuccess, onRegisterSuccess)
Callback(name, arg) == [type |-> "callback", name |-> name, arg |-> arg]

\* console.warn in the catch block of Profile.handleLogout
Warn == [type |-> "warn", msg |-> "Logout API failed but clearing session."]

\* a property read on an object that lacks it
Undefined == "undefined"

\* obj.f
Get(obj, f) == IF f \in DOMAIN obj THEN obj[f] ELSE Undefined

\* a || b for strings
Or(a, b) == IF a \in {Undefined, ""} THEN b ELSE a

\* the parsed body is an object: reading a property of it does not throw
IsObject(b) == b \notin {Unparsable, JsonNull}

\* email texts the user types
UserEmails == {"", "a@x"}

\* the length handleRegister asks of a password
MinPasswordLength == 6

\* a password of n characters c
Pw(c, n) == [i \in 1..n |-> c]

\* passwords the user types: none, one character short, of minimal length
UserPasswords ==
  { <<>>, Pw("a", MinPasswordLength - 1), Pw("a", MinPasswordLength) }

\* bodies the account service may answer with, whatever the status
AccountBodies ==
  { Unparsable, JsonNull, ErrorBody,
    [kind |-> "session", access_token |-> "jwt2", user_id |-> "uid"] }

\* every way an account fetch can settle
AccountResponses ==
  {[kind |-> "network"]}
    \cup {[kind |-> "http", ok |-> o, body |-> b] : o \in BOOLEAN, b \in AccountBodies}

\* ways the logout fetch can settle (its body is never read)
LogoutResponses ==
  {[kind |-> "network"]}
    \cup {[kind |-> "http", ok |-> o, body |-> Unparsable] : o \in BOOLEAN}

\* a request in flight with what its closure holds; orphan: the component
\* instance that sent it is unmounted, its setters do nothing
Pending(op, email) == [op |-> op, email |-> email, orphan |-> FALSE]

Orphaned(rs) == [i \in DOMAIN rs |-> [rs[i] EXCEPT !.orphan = TRUE]]

RemoveAt(q, i) == SubSeq(q, 1, i - 1) \o SubSeq(q, i + 1, Len(q))

\* Home: onLoginClick / onRegisterClick (the buttons of the navigation bar,
\* rendered while not logged in): setShowLogin(true) / setShowRegister(true)
OpenDialog ==
  /\ comp \in Dialogs
  /\ hooks = Null
  /\ ~isLoggedIn
  /\ hooks' = DialogHooks(comp)
  /\ effects' = <<>>
  /\ lastResponse' = Null
  /\ UNCHANGED <<otherVars, token, storedUser, storedUserId, isLoggedIn, requests,
                 timers, nAccountSent, nLoginOk, nCallbacks>>

\* onClose: overlay click and close button (enabled also while loading),
\* Cancel: the dialog unmounts, its requests stay in flight
onClose ==
  /\ comp \in Dialogs
  /\ hooks # Null
  /\ hooks' = Null
  /\ requests' = Orphaned(requests)
  /\ effects' = <<>>
  /\ lastResponse' = Null
  /\ UNCHANGED <<otherVars, token, storedUser, storedUserId, isLoggedIn, timers,
                 nAccountSent, nLoginOk, nCallbacks>>

\* the inputs of the dialog are enabled
InputsEnabled ==
  /\ comp \in Dialogs
  /\ hooks # Null
  /\ comp # "LoginModal0" => ~hooks.loading

\* email input onChange
SetEmail(e) ==
  /\ InputsEnabled
  /\ hooks' = [hooks EXCEPT !.email = e]
  /\ effects' = <<>>
  /\ lastResponse' = Null
  /\ UNCHANGED <<otherVars, token, storedUser, storedUserId, isLoggedIn, requests,
                 timers, nAccountSent, nLoginOk, nCallbacks>>

\* password input onChange
SetPass(p) ==
  /\ InputsEnabled
  /\ hooks' = [hooks EXCEPT !.pass = p]
  /\ effects' = <<>>
  /\ lastResponse' = Null
  /\ UNCHANGED <<otherVars, token, storedUser, storedUserId, isLoggedIn, requests,
                 timers, nAccountSent, nLoginOk, nCallbacks>>

\* confirmation input onChange (RegisterModal)
SetConfirmPass(p) ==
  /\ InputsEnabled
  /\ comp = "RegisterModal"
  /\ hooks' = [hooks EXCEPT !.confirmPass = p]
  /\ effects' = <<>>
  /\ lastResponse' = Null
  /\ UNCHANGED <<otherVars, token, storedUser, storedUserId, isLoggedIn, requests,
                 timers, nAccountSent, nLoginOk, nCallbacks>>

(* ------------------------ LoginModal.handleLogin ------------------------ *)
\* handleLogin can be entered: submit button, Enter in an input (both are
\* disabled while loading); the earlier version has a plain Login button
LoginEnabled ==
  /\ comp \in {"LoginModal", "LoginModal0"}
  /\ hooks # Null
  /\ comp = "LoginModal" => ~hooks.loading

\* handleLogin, field check: !email || !pass
handleLoginRejected ==
  /\ LoginEnabled
  /\ comp = "LoginModal"
  /\ hooks.email = "" \/ hooks.pass = <<>>
  /\ hooks' = [hooks EXCEPT !.error = "Please fill in all fields"]
  /\ effects' = <<>>
  /\ lastResponse' = Null
  /\ UNCHANGED <<otherVars, token, storedUser, storedUserId, isLoggedIn, requests,
                 timers, nAccountSent, nLoginOk, nCallbacks>>

\* handleLogin up to the await of fetch
handleLoginSend ==
  /\ LoginEnabled
  /\ comp = "LoginModal" => (hooks.email # "" /\ hooks.pass # <<>>)
  /\ nAccountSent < MaxCalls
  /\ hooks' = IF comp = "LoginModal"
                THEN [hooks EXCEPT !.loading = TRUE, !.error = "", !.success = ""]
                ELSE hooks
  /\ requests' = Append(requests, Pending("login", hooks.email))
  /\ effects' = <<AuthFetch("/auth/login",
                            [email |-> hooks.email, password |-> hooks.pass])>>
  /\ nAccountSent' = nAccountSent + 1
  /\ lastResponse' = Null
  /\ UNCHANGED <<otherVars, token, storedUser, storedUserId, isLoggedIn, timers,
                 nLoginOk, nCallbacks>>

\* variant: the session is stored before the status is looked at
StoresSessionAnyStatus(r) == r.kind = "http" /\ IsObject(r.body)

\* the continuation reaches the localStorage.setItem calls: res.ok and a
\* body whose access_token can be read
StoresSession(r) == r.kind = "http" /\ r.ok /\ IsObject(r.body)

\* the error text of a run that does not store a session: data.detail,
\* data.message, the fallback, or the text of the catch block
AuthError(r, fallback) ==
  IF r.kind = "http" /\ IsObject(r.body)
    THEN Or(Get(r.body, "detail"), Or(Get(r.body, "message"), fallback))
    ELSE "Connection error. Please try again."

\* handleLogin after the await (current version), for the request i and the
\* response r
handleLoginDone(i, r) ==
  /\ comp = "LoginModal"
  /\ i \in DOMAIN requests
  /\ requests[i].op = "login"
  /\ IF StoresSession(r)
       THEN /\ token' = Get(r.body, "access_token")
            /\ storedUser' = requests[i].email
            /\ storedUserId' = Or(Get(r.body, "user_id"), requests[i].email)
            /\ timers' = Append(timers, Callback("onLoginSuccess", ""))
            /\ nLoginOk' = nLoginOk + 1
            /\ hooks' = IF requests[i].orphan THEN hooks
                        ELSE [hooks EXCEPT !.success = "Login successful!",
                                           !.loading = FALSE]
       ELSE /\ UNCHANGED <<token, storedUser, storedUserId, timers, nLoginOk>>
            /\ hooks' = IF requests[i].orphan THEN hooks
                        ELSE [hooks EXCEPT !.error = AuthError(r, "Login failed"),
                                           !.loading = FALSE]
  /\ requests' = RemoveAt(requests, i)
  /\ effects' = <<>>
  /\ lastResponse' = r
  /\ UNCHANGED <<otherVars, isLoggedIn, nAccountSent, nCallbacks>>

\* Home.handleLoginSuccess: setIsLoggedIn(true), setShowLogin(false)
handleLoginSuccess ==
  /\ isLoggedIn' = TRUE
  /\ hooks' = Null
  /\ nCallbacks' = nCallbacks + 1

\* alerts of the earlier handleLogin for the response r
Login0Alerts(r) ==
  CASE r.kind = "network" \/ r.body = Unparsable ->
         <<Alert("Error connecting to server")>>
    [] r.ok /\ r.body = JsonNull ->
         <<Alert("Login successful"), Alert("Error connecting to server")>>
    [] r.ok -> <<Alert("Login successful")>>
    [] r.body = JsonNull -> <<Alert("Error connecting to server")>>
    [] OTHER -> <<Alert(Or(Get(r.body, "detail"), "Login failed"))>>

\* handleLogin after the await (earlier version): the token is stored and
\* onLoginSuccess is called at once
handleLogin0Done(i, r) ==
  /\ comp = "LoginModal0"
  /\ i \in DOMAIN requests
  /\ requests[i].op = "login"
  /\ IF StoresSession(r)
       THEN /\ token' = Get(r.body, "access_token")
            /\ handleLoginSuccess
            /\ nLoginOk' = nLoginOk + 1
            /\ requests' = Orphaned(RemoveAt(requests, i))
            /\ effects' = Login0Alerts(r) \o <<Callback("onLoginSuccess", "")>>
       ELSE /\ UNCHANGED <<token, isLoggedIn, hooks, nCallbacks, nLoginOk>>
            /\ requests' = RemoveAt(requests, i)
            /\ effects' = Login0Alerts(r)
  /\ lastResponse' = r
  /\ UNCHANGED <<otherVars, storedUser, storedUserId, timers, nAccountSent>>

(* ------------------------ RegisterModal.handleRegister ------------------ *)
\* variant: the length check is left out
PasswordLongEnoughAlways(p) == TRUE

\* pass.length < 6 does not hold
PasswordLongEnough(p) == Len(p) >= MinPasswordLength

\* the message of the first check of handleRegister that fails, "" if none
RegisterError(h) ==
  CASE h.email = "" \/ h.pass = <<>> \/ h.confirmPass = <<>> ->
         "Please fill in all fields"
    [] h.pass # h.confirmPass -> "Passwords do not match"
    [] ~PasswordLongEnough(h.pass) -> "Password must be at least 6 characters"
    [] OTHER -> ""

\* handleRegister can be entered: submit button, Enter in the confirmation
\* input (disabled while loading)
RegisterEnabled ==
  /\ comp = "RegisterModal"
  /\ hooks # Null
  /\ ~hooks.loading

\* handleRegister, a check fails: setError and return
handleRegisterRejected ==
  /\ RegisterEnabled
  /\ RegisterError(hooks) # ""
  /\ hooks' = [hooks EXCEPT !.error = RegisterError(hooks)]
  /\ effects' = <<>>
  /\ lastResponse' = Null
  /\ UNCHANGED <<otherVars, token, storedUser, storedUserId, isLoggedIn, requests,
                 timers, nAccountSent, nLoginOk, nCallbacks>>

\* handleRegister up to the await of fetch
handleRegisterSend ==
  /\ RegisterEnabled
  /\ RegisterError(hooks) = ""
  /\ nAccountSent < MaxCalls
  /\ hooks' = [hooks EXCEPT !.loading = TRUE, !.error = "", !.success = ""]
  /\ requests' = Append(requests, Pending("register", hooks.email))
  /\ effects' = <<AuthFetch("/auth/register",
                            [email |-> hooks.email, password |-> hooks.pass])>>
  /\ nAccountSent' = nAccountSent + 1
  /\ lastResponse' = Null
  /\ UNCHANGED <<otherVars, token, storedUser, storedUserId, isLoggedIn, timers,
                 nLoginOk, nCallbacks>>

\* handleRegister after the await: res.json() resolved and res.ok
Registered(r) == r.kind = "http" /\ r.ok /\ r.body # Unparsable

\* handleRegister after the await, for the request i and the response r
handleRegisterDone(i, r) ==
  /\ comp = "RegisterModal"
  /\ i \in DOMAIN requests
  /\ requests[i].op = "register"
  /\ IF Registered(r)
       THEN /\ timers' = Append(timers, Callback("onRegisterSuccess", requests[i].email))
            /\ hooks' = IF requests[i].orphan THEN hooks
                        ELSE [hooks EXCEPT !.success = "Registered successfully!",
                                           !.loading = FALSE]
       ELSE /\ UNCHANGED timers
            /\ hooks' = IF requests[i].orphan THEN hooks
                        ELSE [hooks EXCEPT
                                !.error = AuthError(r, "Registration failed"),
                                !.loading = FALSE]
  /\ requests' = RemoveAt(requests, i)
  /\ effects' = <<>>
  /\ lastResponse' = r
  /\ UNCHANGED <<otherVars, token, storedUser, storedUserId, isLoggedIn,
                 nAccountSent, nLoginOk, nCallbacks>>

\* the oldest setTimeout callback runs: onLoginSuccess() is
\* Home.handleLoginSuccess, onRegisterSuccess(email) is
\* Home.handleRegisterSuccess (alert, setShowRegister(false))
TimerFires ==
  /\ timers # <<>>
  /\ timers' = Tail(timers)
  /\ requests' = Orphaned(requests)
  /\ IF Head(timers).name = "onLoginSuccess"
       THEN /\ handleLoginSuccess
            /\ effects' = <<Head(timers)>>
       ELSE /\ hooks' = Null
            /\ effects' = <<Head(timers),
                            Alert(<<"Registered successfully as", Head(timers).arg>>)>>
            /\ UNCHANGED <<isLoggedIn, nCallbacks>>
  /\ lastResponse' = Null
  /\ UNCHANGED <<otherVars, token, storedUser, storedUserId, nAccountSent, nLoginOk>>

(* ------------------------ Profile ---------------------------------------- *)
\* click on the profile icon (rendered while the token hook is set):
\* fetchProfile() up to its await, setShowModal(true)
OpenProfile ==
  /\ comp = "Profile"
  /\ hooks.token # NoToken
  /\ ~hooks.showModal
  /\ nAccountSent < MaxCalls
  /\ hooks' = [hooks EXCEPT !.showModal = TRUE]
  /\ requests' = Append(requests, Pending("me", ""))
  /\ effects' = <<AuthFetch("/profile/me", [token |-> hooks.token])>>
  /\ nAccountSent' = nAccountSent + 1
  /\ lastResponse' = Null
  /\ UNCHANGED <<otherVars, token, storedUser, storedUserId, isLoggedIn, timers,
                 nLoginOk, nCallbacks>>

\* fetchProfile after the await: setProfile(data), or the alert of the catch
fetchProfileDone(i, r) ==
  /\ comp = "Profile"
  /\ i \in DOMAIN requests
  /\ requests[i].op = "me"
  /\ IF r.kind = "http" /\ r.ok /\ r.body # Unparsable
       THEN /\ hooks' = [hooks EXCEPT !.profile = r.body]
            /\ effects' = <<>>
       ELSE /\ UNCHANGED hooks
            /\ effects' = <<Alert("Error fetching profile. Please login again.")>>
  /\ requests' = RemoveAt(requests, i)
  /\ lastResponse' = r
  /\ UNCHANGED <<otherVars, token, storedUser, storedUserId, isLoggedIn, timers,
                 nAccountSent, nLoginOk, nCallbacks>>

\* Close button of the profile dialog
CloseProfile ==
  /\ comp = "Profile"
  /\ hooks.showModal
  /\ hooks' = [hooks EXCEPT !.showModal = FALSE]
  /\ effects' = <<>>
  /\ lastResponse' = Null
  /\ UNCHANGED <<otherVars, token, storedUser, storedUserId, isLoggedIn, requests,
                 timers, nAccountSent, nLoginOk, nCallbacks>>

\* Profile.handleLogout up to the await of fetch (the Logout button is in
\* the dialog and is never disabled)
handleLogoutSend ==
  /\ comp = "Profile"
  /\ hooks.showModal
  /\ nAccountSent < MaxCalls
  /\ requests' = Append(requests, Pending("logout", ""))
  /\ effects' = <<AuthFetch("/profile/logout", [token |-> hooks.token])>>
  /\ nAccountSent' = nAccountSent + 1
  /\ lastResponse' = Null
  /\ UNCHANGED <<otherVars, token, hooks, storedUser, storedUserId, isLoggedIn,
                 timers, nLoginOk, nCallbacks>>

\* variant: the clean-up sits inside the try block, after a check of the
\* status
handleLogoutDoneInTry(i, r) ==
  /\ comp = "Profile"
  /\ i \in DOMAIN requests
  /\ requests[i].op = "logout"
  /\ IF r.kind = "http" /\ r.ok
       THEN /\ token' = NoToken
            /\ hooks' = [hooks EXCEPT !.token = NoToken, !.showModal = FALSE]
            /\ effects' = <<Callback("onLogout", "")>>
       ELSE /\ UNCHANGED <<token, hooks>>
            /\ effects' = <<Warn>>
  /\ requests' = RemoveAt(requests, i)
  /\ lastResponse' = r
  /\ UNCHANGED <<otherVars, storedUser, storedUserId, isLoggedIn, timers,
                 nAccountSent, nLoginOk, nCallbacks>>

\* Profile.handleLogout after the await, for the request i and the way r the
\* fetch settled: removeItem("token"), setToken(null), onLogout(),
\* setShowModal(false)
handleLogoutDone(i, r) ==
  /\ comp = "Profile"
  /\ i \in DOMAIN requests
  /\ requests[i].op = "logout"
  /\ token' = NoToken
  /\ hooks' = [hooks EXCEPT !.token = NoToken, !.showModal = FALSE]
  /\ effects' = (IF r.kind = "network" THEN <<Warn>> ELSE <<>>)
                  \o <<Callback("onLogout", "")>>
  /\ requests' = RemoveAt(requests, i)
  /\ lastResponse' = r
  /\ UNCHANGED <<otherVars, storedUser, storedUserId, isLoggedIn, timers,
                 nAccountSent, nLoginOk, nCallbacks>>

(* --------------------------- specification ------------------------------ *)
Next ==
  \/ handleTryNow
  \/ handleLogout
  \/ CloseModal
  \/ CancelModal
  \/ CloseSuccess
  \/ \E r \in UserRequirements : SetRequirement(r)
  \/ \E l \in UserLanguages : SetLanguage(l)
  \/ GenerateRejected
  \/ GenerateSend
  \/ FetchSettles
  \/ GenerateSucceeded
  \/ GenerateFailed
  \/ handleClearHistory
  \/ ToggleEdit
  \/ \E t \in UserEdits : EditCode(t)
  \/ HidePreview
  \/ handleDownload
  \/ \E d \in Range(languages) : \E code \in ValidatorTexts(d) :
       \E vendor \in ValidatorVendors : ValidateText(code, d, vendor)
  \/ MountThemeProvider
  \/ toggleTheme
  \/ ReloadPage
  \/ OpenDialog
  \/ onClose
  \/ \E e \in UserEmails : SetEmail(e)
  \/ \E p \in UserPasswords : SetPass(p)
  \/ \E p \in UserPasswords : SetConfirmPass(p)
  \/ handleLoginRejected
  \/ handleLoginSend
  \/ \E i \in DOMAIN requests : \E r \in AccountResponses : handleLoginDone(i, r)
  \/ \E i \in DOMAIN requests : \E r \in AccountResponses : handleLogin0Done(i, r)
  \/ handleRegisterRejected
  \/ handleRegisterSend
  \/ \E i \in DOMAIN requests : \E r \in AccountResponses : handleRegisterDone(i, r)
  \/ TimerFires
  \/ OpenProfile
  \/ \E i \in DOMAIN requests : \E r \in AccountResponses : fetchProfileDone(i, r)
  \/ CloseProfile
  \/ handleLogoutSend
  \/ \E i \in DOMAIN requests : \E r \in LogoutResponses : handleLogoutDone(i, r)

Spec == Init /\ [][Next]_vars

\* the client resumes a settled call; the service itself owes no answer
FairSpec == Spec /\ WF_vars(GenerateSucceeded) /\ WF_vars(GenerateFailed)

(* ------------------------------ properties ------------------------------ *)
Last(q) == q[Len(q)]

IsPrefix(p, q) == Len(p) <= Len(q) /\ SubSeq(q, 1, Len(p)) = p

AlertCount(es) == Cardinality({i \in DOMAIN es : es[i].type = "alert"})

FetchCount(es) == Cardinality({i \in DOMAIN es : es[i].type = "fetch"})

\* the PLC result the client holds
PlcResults ==
  IF comp = "PlcGeneratorV2" /\ generatedCode # Null THEN {generatedCode} ELSE {}

\* C1: every PLC result has validated true exactly when none of its warnings
\* carries the error marker, so the "All Validations Passed" badge never
\* stands above an error item and "Review Issues Below" never above none.
C1_ValidatedIffNoErrorItem ==
  \A g \in PlcResults :
    /\ g.validated <=> ~(\E i \in DOMAIN g.warnings : StartsWith(g.warnings[i], ErrorMarker))
    /\ Badge(g) = "All Validations Passed" <=> "error" \notin Range(ValidationList(g))

C1_Witness ==
  /\ PreviewShown /\ comp = "PlcGeneratorV2"
  /\ Badge(generatedCode) = "Review Issues Below"
  /\ "error" \in Range(ValidationList(generatedCode))
  /\ "warning" \in Range(ValidationList(generatedCode))

\* C2: when the history is cleared while a run is in flight, the history
\* right after that run's append holds the new entry alone (or nothing);
\* no entry from before the clear is back.
C2_ClearRaceIsSerial ==
  [][(call # Null /\ call.clearedInFlight /\ call' = Null
        /\ nSuccess' = nSuccess + 1)
       => /\ Len(history') <= 1
          /\ \A i \in DOMAIN history' : i > Len(call.history)]_vars

\* C3: without a clear, the history length equals the number of successful
\* runs: a successful run appends one entry, a failed run none.
C3_OneAppendPerSuccess ==
  (comp \in V2 /\ ~cleared) => Len(history) = nSuccess

C3_Witness ==
  /\ comp \in V2 /\ ~cleared /\ call = Null
  /\ nSent = 2 /\ nSuccess = 1 /\ Len(history) = 1
  /\ Last(stages) = "FAILED"

\* C4: N successful runs leave N entries (no clear) and any two entries of
\* the history carry different ids.
C4_DistinctIds ==
  /\ (comp \in V2 /\ ~cleared) => Len(history) = nSuccess
  /\ \A i, j \in DOMAIN history : i # j => history[i].id # history[j].id

\* C5: a step that is not a clear keeps the old history as a prefix of the
\* new one (nothing reordered, changed or removed); a clear empties it.
C5_AppendOnly ==
  [][/\ handleClearHistory => history' = <<>>
     /\ ~handleClearHistory => IsPrefix(history, history')]_vars

C5_Witness ==
  /\ comp \in V2 /\ Len(history) = 2 /\ nSuccess = 2
  /\ history[1].id # history[2].id

\* a handleGenerate invocation starts in this step
RunStarts == stages' # stages /\ Len(stages') = 3

\* C6: a run started on an empty or white-space-only requirement sends no
\* request, does not set loading and leaves the history alone.
C6_BlankRejected ==
  [][(RunStarts /\ Trim(requirement) = <<>>)
       => /\ FetchCount(effects') = 0
          /\ call' = call
          /\ loading' = loading
          /\ history' = history
          /\ Last(stages') = "FAILED"]_vars

C6_Witness ==
  /\ Trim(requirement) = <<>> /\ requirement # <<>>
  /\ stages = <<"PENDING", "NORMALIZING", "FAILED">>
  /\ AlertCount(effects) = 1 /\ FetchCount(effects) = 0
  /\ ~loading /\ call = Null /\ nSent = 0

StageTransitions ==
  { <<"PENDING", "NORMALIZING">>, <<"NORMALIZING", "GENERATING">>,
    <<"GENERATING", "VALIDATING">>, <<"VALIDATING", "COMPLETE">>,
    <<"NORMALIZING", "FAILED">>, <<"GENERATING", "FAILED">> }

\* C7: a run starts in PENDING and moves only along PENDING -> NORMALIZING
\* -> GENERATING -> VALIDATING -> COMPLETE, or to FAILED from NORMALIZING
\* or GENERATING; nothing leaves COMPLETE or FAILED.
C7_StageOrder ==
  /\ stages # <<>> => stages[1] = "PENDING"
  /\ \A i \in 1..(Len(stages) - 1) : <<stages[i], stages[i + 1]>> \in StageTransitions

C7_Witness ==
  /\ stages = <<"PENDING", "NORMALIZING", "GENERATING", "VALIDATING", "COMPLETE">>
  /\ nSent = 2 /\ nSuccess = 1

\* a run that got generated text (entered VALIDATING) ends in this step
TextRunEnds ==
  /\ comp \in V2
  /\ call # Null /\ call' = Null
  /\ "VALIDATING" \in Range(stages')

\* C8: once the service has produced text the run completes, whatever the
\* findings: the result becomes the current artifact, the preview shows it,
\* the download hands out its text and the history gets its entry.
C8_TextAlwaysCompletes ==
  [][TextRunEnds
       => /\ Last(stages') = "COMPLETE"
          /\ PreviewShown'
          /\ AlertCount(effects') = 0
          /\ Len(history') >= 1
          /\ IF comp = "PlcGeneratorV2"
               THEN /\ Last(history').code = generatedCode'.code
                    /\ (DownloadFile.content)' = generatedCode'.code
                    /\ generatedCode'.code \in Texts(call.language)
               ELSE /\ Last(history').hmi_code = generatedCode'.hmi_code
                    /\ (DownloadFile.content)' = generatedCode'.hmi_code
                    /\ generatedCode'.hmi_code \in HmiTexts]_vars

C8_Witness ==
  /\ comp = "PlcGeneratorV2" /\ PreviewShown
  /\ ~generatedCode.validated
  /\ Last(stages) = "COMPLETE"
  /\ Len(history) >= 1 /\ Last(history).code = generatedCode.code
  /\ effects = <<>>

\* C9: a run whose call is outstanding eventually ends (in FAILED with a
\* timeout error when the service stays silent); it never stays in
\* GENERATING with loading set for ever.
C9_NoEndlessGenerating == (call # Null) ~> (call = Null /\ ~loading)

\* a run ends in this step
RunEnds == call # Null /\ call' = Null

\* C10: a run ends either with its artifact as the current result and no
\* error message, or with exactly one error message and the current
\* artifact, the edited code, the preview flag and the history untouched.
C10_NoPartialOutcome ==
  [][RunEnds
       => \/ /\ Last(stages') = "COMPLETE"
             /\ AlertCount(effects') = 0
             /\ comp \in V2 => generatedCode' # Null
          \/ /\ Last(stages') = "FAILED"
             /\ AlertCount(effects') = 1
             /\ UNCHANGED <<generatedCode, generated, editedCode, showPreview,
                            history>>]_vars

\* C11: a generation request is issued only while a token is in storage,
\* also when the user logs out after the generation dialog was opened.
C11_RequestNeedsToken ==
  [][FetchCount(effects') > 0 => token' # NoToken]_vars

\* C12: only a user's generate action sends a request, and it sends one: a
\* failed call is not sent again, so the requests sent never outnumber the
\* generate actions.
C12_NoAutomaticRetry ==
  [][/\ FetchCount(effects') <= 1
     /\ nSent' - nSent = FetchCount(effects')
     /\ FetchCount(effects') = 1 => RunStarts
     /\ RunEnds => (FetchCount(effects') = 0 /\ ~loading')]_vars

C12_Witness ==
  /\ comp \in Generators /\ call = Null /\ ~loading
  /\ stages = <<"PENDING", "NORMALIZING", "GENERATING", "FAILED">>
  /\ AlertCount(effects) = 1 /\ FetchCount(effects) = 0
  /\ nSent = 1 /\ nSuccess = 0

\* the code-generation requests among the outputs of the latest step
CodeRequests ==
  {effects[i] : i \in {j \in DOMAIN effects :
                          /\ effects[j].type = "fetch"
                          /\ effects[j].url = "/plc-v2/generate"}}

Downloads == {effects[i] : i \in {j \in DOMAIN effects : effects[j].type = "download"}}

\* C16: a download hands out the text of the current artifact unchanged (code
\* of the PLC result, hmi_code of the HMI result) with the type of its kind,
\* and there is no download without a current artifact.
C16_DownloadIsArtifact ==
  \A f \in Downloads :
    /\ generatedCode # Null
    /\ comp = "PlcGeneratorV2" =>
         (f.content = generatedCode.code /\ f.mime = "text/plain")
    /\ comp = "HmiGeneratorV2" =>
         (f.content = generatedCode.hmi_code /\ f.mime = "text/html")

\* C17: a clear empties the history and leaves the current artifact, its
\* preview, the requirement text and a run in flight as they are.
C17_ClearOnlyHistory ==
  [][handleClearHistory
       => /\ history' = <<>>
          /\ UNCHANGED <<generatedCode, showPreview, requirement, loading>>
          /\ (call = Null) <=> (call' = Null)]_vars

\* every code-generation result at hand: the client's current result and the
\* reports of the validation service
Results ==
  PlcResults
    \cup (IF lastReport = Null THEN {} ELSE {lastReport.body})
    \cup (IF prevReport = Null THEN {} ELSE {prevReport.body})

Rank(c) == CASE c = "error" -> 1 [] c = "warning" -> 2 [] OTHER -> 3

\* C14: the items of every report come as errors, then warnings, then tips,
\* each group in ascending rule order, and the list is displayed in that
\* order: no warning or tip item stands before an error item.
C14_ErrorsWarningsTips ==
  \A g \in Results :
    LET shown == ValidationList(g) IN
      /\ Len(shown) = Len(g.warnings)
      /\ \A i, j \in DOMAIN shown :
           i < j => /\ Rank(shown[i]) <= Rank(shown[j])
                    /\ StartsWith(g.warnings[i], ErrorMarker)
                         \/ ~StartsWith(g.warnings[j], ErrorMarker)
                    /\ g.warnings[i][1] = g.warnings[j][1]
                         => g.warnings[i][2] < g.warnings[j][2]

C14_Witness ==
  /\ lastReport # Null
  /\ ValidationList(lastReport.body) = <<"error", "error", "warning", "tip">>

\* C15: every warning string of a response starts with exactly one of the
\* three markers and is given the class of that marker; the tip class goes
\* only to strings carrying the tip marker.
C15_OneClassPerMarker ==
  \A g \in Results : \A i \in DOMAIN g.warnings :
    LET w == g.warnings[i] IN
      /\ Cardinality({m \in {ErrorMarker, WarningMarker, TipMarker} :
                         StartsWith(w, m)}) = 1
      /\ ItemClass(w) = "error" <=> StartsWith(w, ErrorMarker)
      /\ ItemClass(w) = "warning" <=> StartsWith(w, WarningMarker)
      /\ ItemClass(w) = "tip" <=> StartsWith(w, TipMarker)

C15_Witness ==
  /\ comp = "PlcGeneratorV2" /\ PreviewShown
  /\ Range(ValidationList(generatedCode)) = {"error", "warning", "tip"}

LacksMarker(g) ==
  \/ OpenMarker(g.language) \notin Range(g.code)
  \/ CloseMarker(g.language) \notin Range(g.code)

\* C19: in each dialect, code without the opening or the closing marker gets
\* an error finding, is not validated, and is shown with the review badge.
C19_MissingMarkerIsError ==
  \A g \in Results :
    LacksMarker(g)
      => /\ \E i \in DOMAIN g.warnings : StartsWith(g.warnings[i], ErrorMarker)
         /\ ~g.validated
         /\ Badge(g) = "Review Issues Below"

C19_Witness ==
  /\ lastReport # Null /\ prevReport # Null
  /\ lastReport.body.language = "IL" /\ prevReport.body.language = "SFC"
  /\ LacksMarker(lastReport.body) /\ LacksMarker(prevReport.body)
  /\ ~lastReport.body.validated /\ ~prevReport.body.validated
  /\ OpenMarker("IL") \in Range(lastReport.body.code)

\* C20: the theme is dark after a load without stored preference, is light
\* or dark at all times, changes at every toggle, and is back after two.
C20_ThemeToggles ==
  /\ theme # Unmounted => (theme \in {"light", "dark"} /\ theme = Last(themeLog))
  /\ themeLog # <<>> =>
       /\ themeLog[1] = NoTheme => themeLog[2] = "dark"
       /\ \A i \in 2..Len(themeLog) : themeLog[i] \in {"light", "dark"}
       /\ \A i \in 2..(Len(themeLog) - 1) : themeLog[i + 1] # themeLog[i]
       /\ \A i \in 2..(Len(themeLog) - 2) : themeLog[i + 2] = themeLog[i]

C20_Witness ==
  /\ themeLog = <<NoTheme, "dark", "light", "dark">>
  /\ theme = "dark" /\ storedTheme = "dark"

\* C21: a download of PLC code delivers the text the preview displays: the
\* edited code once the user has changed it (also after Done Editing), the
\* generated code otherwise.
C21_DeliversDisplayedCode ==
  comp = "PlcGeneratorV2" =>
    \A f \in Downloads : f.content = editedCode

\* C26: the dialect tag and the extension of a PLC download's file name are
\* those of the language of the current generated result, whatever language
\* is selected in the dialog.
C26_FileNameNamesArtifactDialect ==
  comp = "PlcGeneratorV2" =>
    \A f \in Downloads :
      /\ f.filename[2] = generatedCode.language
      /\ f.filename[3] = Extension(generatedCode.language)

\* C24: a generation request is sent only while no run of the component is
\* in flight and loading is off, so at most one request is outstanding,
\* whatever the user does with the dialog in between.
C24_OneRunInFlight ==
  [][FetchCount(effects') > 0
       => /\ call = Null /\ ~loading
          /\ call' # Null /\ ~call'.settled
          /\ FetchCount(effects') = 1]_vars

\* a run is in flight, the dialog is open with a requirement typed in and
\* another language selected, a further run is within the bound: only the
\* loading flag keeps Generate off
C24_Witness ==
  /\ comp = "PlcGeneratorV2" /\ showModal
  /\ call # Null /\ ~call.settled /\ loading
  /\ ~IsBlank(requirement) /\ language # call.language
  /\ nSent < MaxRuns
  /\ ~GenerateEnabled

\* C25: loading is set exactly while a generation request is in flight: on
\* from the send to the end of the handler, off after every outcome.
C25_LoadingIffInFlight ==
  /\ loading <=> call # Null
  /\ (comp \in Generators /\ Len(stages) > 3) => ~loading

\* both runs are over, the second by a body that does not parse, the first
\* by a success: loading is off again
C25_Witness ==
  /\ comp \in Generators /\ ~loading /\ call = Null
  /\ nSent = 2 /\ nSuccess = 1
  /\ stages = <<"PENDING", "NORMALIZING", "GENERATING", "FAILED">>
  /\ AlertCount(effects) = 1

\* account requests of one kind in flight
InFlight(op) == Cardinality({i \in DOMAIN requests : requests[i].op = op})

\* the callbacks called by the latest step
Callbacks(name) ==
  {i \in DOMAIN effects : effects[i].type = "callback" /\ effects[i].name = name}

\* C22: when a Profile.handleLogout call completes, the stored token is
\* gone, the token hook is null, onLogout has been called once and the
\* dialog is closed, however the logout fetch settled.
C22_LogoutEndsSession ==
  [][InFlight("logout")' < InFlight("logout")
       => /\ token' = NoToken
          /\ hooks'.token = NoToken
          /\ ~hooks'.showModal
          /\ Cardinality(Callbacks("onLogout"))' = 1]_vars

\* a logout whose fetch threw has just completed
C22_Witness ==
  /\ comp = "Profile"
  /\ lastResponse = [kind |-> "network"]
  /\ effects = <<Warn, Callback("onLogout", "")>>
  /\ token = NoToken /\ hooks.token = NoToken /\ ~hooks.showModal
  /\ InFlight("logout") = 0

\* the account requests to a url among the outputs of the latest step
AccountRequests(url) ==
  {i \in DOMAIN effects : effects[i].type = "account" /\ effects[i].url = url}

\* the registration form passes the three checks
FormValid(h) ==
  /\ h.email # "" /\ h.pass # <<>> /\ h.confirmPass # <<>>
  /\ h.pass = h.confirmPass
  /\ Len(h.pass) >= MinPasswordLength

\* C23: a registration request leaves only a form whose three fields are
\* filled, whose password equals the confirmation and has at least 6
\* characters; a handleRegister call on any other form sets an error message
\* and sends nothing.
C23_RegisterChecksFirst ==
  [][/\ AccountRequests("/auth/register")' # {}
          => (hooks # Null /\ FormValid(hooks) /\ handleRegisterSend)
     /\ ((handleRegisterRejected \/ handleRegisterSend) /\ ~FormValid(hooks))
          => /\ hooks'.error # ""
             /\ AccountRequests("/auth/register")' = {}
             /\ requests' = requests
             /\ ~hooks'.loading]_vars

\* a form with matching passwords one character short has been refused
C23_Witness ==
  /\ comp = "RegisterModal" /\ hooks # Null
  /\ hooks.email # "" /\ hooks.pass = hooks.confirmPass
  /\ Len(hooks.pass) = MinPasswordLength - 1
  /\ hooks.error = "Password must be at least 6 characters"
  /\ requests = <<>> /\ nAccountSent = 0 /\ effects = <<>>

\* the latest step completed a login that failed: the fetch threw or the
\* status was not OK
LoginFailed ==
  /\ InFlight("login")' < InFlight("login")
  /\ lastResponse'.kind = "network" \/ ~lastResponse'.ok

\* C27: in both versions of the login dialog, token, user and userId in
\* storage change only in a step that handled a response with OK status; a
\* login that failed or was refused for missing fields leaves them as they
\* were, schedules no onLoginSuccess and calls none.
C27_SessionOnlyAfterOk ==
  [][(comp = "LoginModal" \/ comp = "LoginModal0")
       => /\ <<token, storedUser, storedUserId>>' # <<token, storedUser, storedUserId>>
               => (lastResponse'.kind = "http" /\ lastResponse'.ok)
          /\ (LoginFailed \/ handleLoginRejected)
               => /\ UNCHANGED <<token, storedUser, storedUserId>>
                  /\ UNCHANGED <<timers, nCallbacks, isLoggedIn>>
                  /\ Callbacks("onLoginSuccess")' = {}]_vars

\* a login refused with an error status has left the earlier session in
\* storage and shows the server's message
C27_Witness ==
  /\ comp = "LoginModal" /\ hooks # Null
  /\ lastResponse = [kind |-> "http", ok |-> FALSE, body |-> ErrorBody]
  /\ hooks.error = "detail" /\ ~hooks.loading
  /\ token = "jwt" /\ storedUser = OldUser /\ storedUserId = OldUser
  /\ timers = <<>> /\ nCallbacks = 0 /\ ~isLoggedIn

\* C28: the current login dialog never has two login requests in flight,
\* and every login that succeeded has had or will have exactly one
\* onLoginSuccess call.
C28_OneLoginInFlight ==
  comp = "LoginModal" =>
    /\ InFlight("login") <= 1
    /\ nCallbacks + Len(timers) = nLoginOk

====
